---- MODULE Spec2Model ----
(***************************************************************************)
(* ScraperBot (src/main.py): a Streamlit script that scrapes a web page or *)
(* a PDF into one Document, keeps it in st.session_state, and answers chat *)
(* questions by sending a rendered prompt to a Groq-hosted model.          *)
(*                                                                         *)
(* Text is modelled as a sequence of one-character strings, a model        *)
(* response as a sequence of tokens (the two markers, text, whitespace).   *)
(* Python's None is the record None; every optional value is a record, so  *)
(* that a comparison with None is always defined.                          *)
(***************************************************************************)
EXTENDS Integers, Sequences, FiniteSets, TLC

VARIABLES
    os_environ,     \* whether the process environment holds 'key'
    dotenv,         \* whether the .env file holds 'key'
    session_state,  \* st.session_state: scraped_data, chain, data, template, messages
    page,           \* what the last script run rendered
    pc,             \* "idle", or "invoking" while the run waits in chain.invoke
    prompt,         \* the prompt handed to chain.invoke, None when none is in flight
    calls,          \* chain.invoke calls made by the current (or last) script run
    grounding,      \* per Message: the document current at / the prompt used for it
    lastEvent,      \* what the last step did
    arg,            \* the input of the last step's operation (extractor, clear, post-processing)
    ret             \* what that operation returned

vars == <<os_environ, dotenv, session_state, page, pc, prompt, calls, grounding,
          lastEvent, arg, ret>>

-----------------------------------------------------------------------------
(* Bounds *)

MaxText == 1        \* characters in the text of one HTML element
MaxElems == 3       \* elements of one HTML page
MaxRaw == 5         \* tokens of one model response
MaxMessages == 4    \* Messages kept in the history

-----------------------------------------------------------------------------
(* Values *)

None == [is_none |-> TRUE]

Chars == {"a", "b", " ", "\n"}
Whitespace == {" ", "\n"}

OPEN == "<think>"
CLOSE == "</think>"
Tokens == {OPEN, CLOSE, "r", "v", "\n"}

SeqsUpTo(S, n) == UNION {[1..k -> S] : k \in 0..n}

\* langchain_core.documents.Document(page_content=..., metadata={"source": ...})
Document(page_content, source) == [page_content |-> page_content, source |-> source]

Error(message) == [error |-> message]

-----------------------------------------------------------------------------
(* String helpers, as Python computes them *)

\* sep.join(parts)
RECURSIVE Join(_, _)
Join(parts, sep) ==
    IF parts = <<>> THEN <<>>
    ELSE IF Len(parts) = 1 THEN parts[1]
    ELSE parts[1] \o sep \o Join(Tail(parts), sep)

\* re.sub(r'\s+', ' ', text): every maximal run of whitespace becomes one space
RECURSIVE CollapseWhitespace(_)
CollapseWhitespace(text) ==
    IF text = <<>> THEN <<>>
    ELSE IF Head(text) \in Whitespace
         THEN LET rest == CollapseWhitespace(Tail(text))
              IN  IF Len(text) > 1 /\ text[2] \in Whitespace
                  THEN rest
                  ELSE <<" ">> \o rest
         ELSE <<Head(text)>> \o CollapseWhitespace(Tail(text))

\* text.strip()
RECURSIVE Strip(_)
Strip(text) ==
    IF text = <<>> THEN <<>>
    ELSE IF Head(text) \in Whitespace THEN Strip(Tail(text))
    ELSE IF text[Len(text)] \in Whitespace THEN Strip(SubSeq(text, 1, Len(text) - 1))
    ELSE text

-----------------------------------------------------------------------------
(* Web extractor *)

\* soup.find_all('p') followed by p.get_text(): the texts of the paragraph elements
IsParagraph(el) == el.tag = "p"
GetText(el) == el.text
RECURSIVE GetTexts(_)
GetTexts(elements) ==
    IF elements = <<>> THEN <<>>
    ELSE <<GetText(Head(elements))>> \o GetTexts(Tail(elements))
ParagraphTexts(soup) == GetTexts(SelectSeq(soup, IsParagraph))

\* response.raise_for_status(): raises HTTPError for 4xx and 5xx
RaisesForStatus(response) == response.status >= 400 /\ response.status < 600

\* Variant: the paragraph texts joined without the separating space
scrape_website_nojoin(url, response) ==
    IF response.raises \/ RaisesForStatus(response)
    THEN <<None, Error("Error scraping the website")>>
    ELSE LET text == Strip(CollapseWhitespace(Join(ParagraphTexts(response.soup), <<>>)))
         IN  IF text = <<>>
             THEN <<None, Error("No meaningful content found on the page.")>>
             ELSE <<Document(text, url), None>>

scrape_website(url, response) ==
    IF response.raises \/ RaisesForStatus(response)
    THEN <<None, Error("Error scraping the website")>>
    ELSE LET text == Strip(CollapseWhitespace(Join(ParagraphTexts(response.soup), <<" ">>)))
         IN  IF text = <<>>
             THEN <<None, Error("No meaningful content found on the page.")>>
             ELSE <<Document(text, url), None>>

-----------------------------------------------------------------------------
(* PDF extractor *)

\* page.extract_text() or ""
ExtractText(pg) == IF pg.has_text THEN pg.text ELSE <<>>

\* [page.extract_text() or "" for page in pdf.pages]
RECURSIVE PageTexts(_)
PageTexts(pages) ==
    IF pages = <<>> THEN <<>>
    ELSE <<ExtractText(Head(pages))>> \o PageTexts(Tail(pages))

\* Variant: without the "if not text" check of line 68
scrape_pdf_nocheck(uploaded_file) ==
    IF ~uploaded_file.readable
    THEN <<None, Error("Error processing the PDF")>>
    ELSE LET text == Strip(CollapseWhitespace(Join(PageTexts(uploaded_file.pages), <<" ">>)))
         IN  <<Document(text, uploaded_file.name), None>>

scrape_pdf(uploaded_file) ==
    IF ~uploaded_file.readable
    THEN <<None, Error("Error processing the PDF")>>
    ELSE LET text == Strip(CollapseWhitespace(Join(PageTexts(uploaded_file.pages), <<" ">>)))
         IN  IF text = <<>>
             THEN <<None, Error("No text found in the PDF.")>>
             ELSE <<Document(text, uploaded_file.name), None>>

-----------------------------------------------------------------------------
(* Post-processing of the model's response *)

\* re.sub(r"<think>.*?</think>", "", raw, flags=re.DOTALL): scanning from the
\* left, an opening marker with a closing marker somewhere after it is removed
\* together with everything up to the FIRST such closing marker (.*? is lazy,
\* DOTALL lets it cross newlines); the scan resumes after the match.
RECURSIVE SubThink(_)
SubThink(raw) ==
    IF raw = <<>> THEN <<>>
    ELSE IF Head(raw) = OPEN /\ \E j \in 2..Len(raw) : raw[j] = CLOSE
         THEN LET j == CHOOSE j \in 2..Len(raw) :
                           /\ raw[j] = CLOSE
                           /\ \A k \in 2..(j - 1) : raw[k] # CLOSE
              IN  SubThink(SubSeq(raw, j + 1, Len(raw)))
         ELSE <<Head(raw)>> \o SubThink(Tail(raw))

\* line 190: re.sub(...).strip()
StripThink(raw) == Strip(SubThink(raw))

-----------------------------------------------------------------------------
(* Configuration and the inference chain *)

\* load_dotenv(): copies 'key' from the .env file into the process environment
\* when the environment does not hold it yet; it never removes a variable
load_dotenv(environ, file) == environ \/ file

\* deepseek | parser
Chain == [model_name |-> "deepseek-r1-distill-llama-70b"]

\* Variant: without the "if not api_key" check of line 31
initialize_groq_chain_nocheck(api_key) == [raises |-> FALSE, chain |-> Chain]

\* lines 30-41: ValueError when os.getenv('key') is missing or empty
initialize_groq_chain(api_key) ==
    IF ~api_key
    THEN [raises |-> TRUE, chain |-> None]
    ELSE [raises |-> FALSE, chain |-> Chain]

Template == [template |-> "Context: {context} Question: {question}"]

\* Variant: the template is not returned
initialize_chain_notemplate(scraped_data) == <<scraped_data, None>>

\* lines 78-87
initialize_chain(scraped_data) == <<scraped_data, Template>>

-----------------------------------------------------------------------------
(* The pieces of one script run of main() *)

\* lines 108-117: the defaults a new session gets
InitialSessionState ==
    [scraped_data |-> None, chain |-> None, data |-> None, template |-> None,
     messages |-> <<>>]

\* lines 120-125: build the chain when the session has none; a ValueError is
\* shown with st.error and the run returns
Startup(st, environ, file) ==
    IF st.chain = None
    THEN LET loaded == load_dotenv(environ, file)
             made == initialize_groq_chain(loaded)
         IN  IF made.raises
             THEN [halt |-> TRUE, st |-> st, environ |-> loaded]
             ELSE [halt |-> FALSE, st |-> [st EXCEPT !.chain = made.chain],
                   environ |-> loaded]
    ELSE [halt |-> FALSE, st |-> st, environ |-> environ]

\* Variant: without line 133
ClearEverything_keepmessages(st) ==
    [st EXCEPT !.scraped_data = None, !.chain = None, !.data = None, !.template = None]

\* lines 129-133
ClearEverything(st) ==
    [st EXCEPT !.scraped_data = None, !.chain = None, !.data = None,
               !.template = None, !.messages = <<>>]

\* Variant: a new document also empties the history
StoreDocument_resetmessages(st, document) ==
    [st EXCEPT !.scraped_data = document,
               !.data = initialize_chain(document)[1],
               !.template = initialize_chain(document)[2],
               !.messages = <<>>]

\* Variant: data is set by the first extraction only
StoreDocument_stale(st, document) ==
    [st EXCEPT !.scraped_data = document,
               !.data = IF st.data = None THEN document ELSE st.data,
               !.template = initialize_chain(document)[2]]

\* lines 149-150 and 161-162
StoreDocument(st, document) ==
    [st EXCEPT !.scraped_data = document,
               !.data = initialize_chain(document)[1],
               !.template = initialize_chain(document)[2]]

\* lines 146-150 and 158-162: "if error: st.error(error) / elif scraped_data: store"
AfterExtraction(st, result) ==
    IF result[2] # None THEN st
    ELSE IF result[1] # None THEN StoreDocument(st, result[1])
    ELSE st

\* Variant: the chat interface without the guard of line 166
ChatInterfaceShown_always(st) == TRUE

\* line 166: "if st.session_state.scraped_data" (a Document is always truthy)
ChatInterfaceShown(st) == st.scraped_data # None

Message(role, content) == [role |-> role, content |-> content]

\* lines 182-185: template.format(context=data.page_content, question=user_input)
CanRender(st) == st.template # None /\ st.data # None
RenderPrompt(st, user_input) ==
    [context |-> st.data.page_content, question |-> user_input]

\* What a run leaves on the screen
BlankPage == [view |-> "blank", chat_input |-> FALSE, error |-> "none"]
ConfigErrorPage == [view |-> "config_error", chat_input |-> FALSE, error |-> "config"]
MainPage(st, error) ==
    [view |-> "main", chat_input |-> ChatInterfaceShown(st), error |-> error]

-----------------------------------------------------------------------------
(* Inputs of the session *)

Urls == {"", "u1"}

Element(tag, text) == [tag |-> tag, text |-> text]
Response(raises, status, soup) == [raises |-> raises, status |-> status, soup |-> soup]

SessionResponses ==
    { Response(TRUE, 0, <<>>),
      Response(FALSE, 404, <<Element("p", <<"a">>)>>),
      Response(FALSE, 200, <<Element("p", <<"a">>), Element("p", <<>>)>>),
      Response(FALSE, 200, <<Element("div", <<"a">>), Element("p", <<" ">>)>>) }

Page(has_text, text) == [has_text |-> has_text, text |-> text]
File(name, readable, pages) == [name |-> name, readable |-> readable, pages |-> pages]

SessionFiles ==
    { None,
      File("f1", FALSE, <<>>),
      File("f1", TRUE, <<Page(FALSE, <<>>), Page(TRUE, <<" ">>)>>),
      File("f1", TRUE, <<Page(TRUE, <<"b">>), Page(FALSE, <<>>)>>) }

Questions == {<<"q1">>, <<"q2">>}

RawAnswers == { <<OPEN, "r", CLOSE, "\n", "v">>, <<"v", "v">> }

-----------------------------------------------------------------------------
(* The session: one action per user action, each a whole script run *)

Init ==
    /\ os_environ \in BOOLEAN
    /\ dotenv \in BOOLEAN
    /\ session_state = InitialSessionState
    /\ page = BlankPage
    /\ pc = "idle"
    /\ prompt = None
    /\ calls = 0
    /\ grounding = <<>>
    /\ lastEvent = "start"
    /\ arg = None
    /\ ret = None

\* The user (or a deployment) edits the .env file
EditDotenv ==
    /\ dotenv' = ~dotenv
    /\ UNCHANGED <<os_environ, session_state, page, pc, prompt, calls, grounding,
                   lastEvent, arg, ret>>

\* lines 123-125: the run ends at the configuration error
Halt(s) ==
    /\ os_environ' = s.environ
    /\ session_state' = s.st
    /\ page' = ConfigErrorPage
    /\ lastEvent' = "config_error"
    /\ calls' = 0
    /\ arg' = None
    /\ ret' = None
    /\ UNCHANGED <<dotenv, pc, prompt, grounding>>

\* A run that reaches line 166 without calling the model
Finish(s, st, event, error, input, output) ==
    /\ os_environ' = s.environ
    /\ session_state' = st
    /\ page' = MainPage(st, error)
    /\ lastEvent' = event
    /\ calls' = 0
    /\ arg' = input
    /\ ret' = output
    /\ UNCHANGED <<dotenv, pc, prompt>>

\* A run no widget triggered: the page is loaded, or an input field changed
Rerun ==
    /\ pc = "idle"
    /\ LET s == Startup(session_state, os_environ, dotenv)
       IN  IF s.halt THEN Halt(s)
           ELSE Finish(s, s.st, "rerun", "none", None, None) /\ UNCHANGED grounding

\* lines 128-135: "Clear Everything", then st.rerun() runs the script again
ClearAll ==
    /\ pc = "idle"
    /\ page.view = "main"
    /\ LET s == Startup(session_state, os_environ, dotenv)
       IN  IF s.halt THEN Halt(s)
           ELSE LET cleared == ClearEverything(s.st)
                    again == Startup(cleared, s.environ, dotenv)
                IN  /\ grounding' = IF cleared.messages = <<>> THEN <<>> ELSE grounding
                    /\ os_environ' = again.environ
                    /\ session_state' = again.st
                    /\ page' = IF again.halt THEN ConfigErrorPage
                                ELSE MainPage(again.st, "none")
                    /\ lastEvent' = "clear_all"
                    /\ calls' = 0
                    /\ arg' = s.st
                    /\ ret' = None
                    /\ UNCHANGED <<dotenv, pc, prompt>>

\* lines 141-151: "Scrape Website" with the URL field's value
ScrapeWebsite(url, response) ==
    /\ pc = "idle"
    /\ page.view = "main"
    /\ LET s == Startup(session_state, os_environ, dotenv)
       IN  IF s.halt THEN Halt(s)
           ELSE IF url = ""
           THEN Finish(s, s.st, "rerun", "none", None, None) /\ UNCHANGED grounding
           ELSE LET result == scrape_website(url, response)
                    st == AfterExtraction(s.st, result)
                IN  /\ Finish(s, st,
                              IF result[2] # None THEN "extract_error" ELSE "extract_ok",
                              IF result[2] # None THEN "extract" ELSE "none",
                              [url |-> url, response |-> response], result)
                    /\ grounding' = IF st.messages = <<>> THEN <<>> ELSE grounding

\* lines 153-163: "Process PDF" with the uploaded file, None when there is none
ProcessPdf(uploaded_file) ==
    /\ pc = "idle"
    /\ page.view = "main"
    /\ LET s == Startup(session_state, os_environ, dotenv)
       IN  IF s.halt THEN Halt(s)
           ELSE IF uploaded_file = None
           THEN Finish(s, s.st, "rerun", "none", None, None) /\ UNCHANGED grounding
           ELSE LET result == scrape_pdf(uploaded_file)
                    st == AfterExtraction(s.st, result)
                IN  /\ Finish(s, st,
                              IF result[2] # None THEN "extract_error" ELSE "extract_ok",
                              IF result[2] # None THEN "extract" ELSE "none",
                              [uploaded_file |-> uploaded_file], result)
                    /\ grounding' = IF st.messages = <<>> THEN <<>> ELSE grounding

\* lines 166-189: a question typed into the chat input, up to the call of the model
Ask(user_input) ==
    /\ pc = "idle"
    /\ page.chat_input
    /\ Len(session_state.messages) + 2 <= MaxMessages
    /\ LET s == Startup(session_state, os_environ, dotenv)
       IN  IF s.halt THEN Halt(s)
           ELSE IF ~ChatInterfaceShown(s.st)
           THEN Finish(s, s.st, "rerun", "none", None, None) /\ UNCHANGED grounding
           ELSE LET st == [s.st EXCEPT !.messages = Append(@, Message("user", user_input))]
                IN  /\ grounding' = Append(grounding, s.st.scraped_data)
                    /\ os_environ' = s.environ
                    /\ session_state' = st
                    /\ arg' = None
                    /\ ret' = None
                    /\ UNCHANGED dotenv
                    /\ IF CanRender(st) /\ st.chain # None
                       THEN /\ prompt' = RenderPrompt(st, user_input)
                            /\ pc' = "invoking"
                            /\ calls' = 1
                            /\ page' = MainPage(st, "none")
                            /\ lastEvent' = "ask"
                       ELSE /\ prompt' = None
                            /\ pc' = "idle"
                            /\ calls' = 0
                            /\ page' = MainPage(st, "exception")
                            /\ lastEvent' = "attribute_error"

\* lines 189-194: chain.invoke returns the raw answer
InvokeReturn(raw_answer) ==
    /\ pc = "invoking"
    /\ LET answer_no_think == StripThink(raw_answer)
       IN  /\ session_state' = [session_state EXCEPT
                                  !.messages = Append(@, Message("assistant", answer_no_think))]
           /\ grounding' = Append(grounding, prompt)
           /\ arg' = raw_answer
           /\ ret' = answer_no_think
    /\ pc' = "idle"
    /\ prompt' = None
    /\ lastEvent' = "answer"
    /\ UNCHANGED <<os_environ, dotenv, page, calls>>

\* Variant: the failed call is made again
InvokeRaise_retry ==
    /\ pc = "invoking"
    /\ calls' = calls + 1
    /\ lastEvent' = "inference_error"
    /\ UNCHANGED <<os_environ, dotenv, session_state, page, pc, prompt, grounding, arg, ret>>

\* line 189: chain.invoke raises; nothing in main() catches it, so the run ends
\* there and the exception is shown on the page
InvokeRaise ==
    /\ pc = "invoking"
    /\ pc' = "idle"
    /\ prompt' = None
    /\ page' = [page EXCEPT !.error = "exception"]
    /\ lastEvent' = "inference_error"
    /\ UNCHANGED <<os_environ, dotenv, session_state, calls, grounding, arg, ret>>

Next ==
    \/ EditDotenv
    \/ Rerun
    \/ ClearAll
    \/ \E url \in Urls, response \in SessionResponses : ScrapeWebsite(url, response)
    \/ \E uploaded_file \in SessionFiles : ProcessPdf(uploaded_file)
    \/ \E user_input \in Questions : Ask(user_input)
    \/ \E raw_answer \in RawAnswers : InvokeReturn(raw_answer)
    \/ InvokeRaise

Spec == Init /\ [][Next]_vars

-----------------------------------------------------------------------------
(* The web extractor on its own: every response within the bounds *)

Texts == SeqsUpTo(Chars, MaxText)
Elements == {Element("p", text) : text \in Texts} \cup {Element("div", <<"a">>)}
Soups == SeqsUpTo(Elements, MaxElems)
HttpResponses ==
    {Response(TRUE, 0, <<>>), Response(FALSE, 404, <<Element("p", <<"a">>)>>)}
        \cup {Response(FALSE, 200, soup) : soup \in Soups}

Quiescent ==
    /\ os_environ = TRUE
    /\ dotenv = TRUE
    /\ session_state = InitialSessionState
    /\ page = BlankPage
    /\ pc = "idle"
    /\ prompt = None
    /\ calls = 0
    /\ grounding = <<>>
    /\ lastEvent = "start"
    /\ ret = None

InitScrape ==
    /\ Quiescent
    /\ arg \in {[url |-> "u1", response |-> response] : response \in HttpResponses}

CallScrapeWebsite ==
    /\ lastEvent = "start"
    /\ ret' = scrape_website(arg.url, arg.response)
    /\ lastEvent' = "scrape_website"
    /\ UNCHANGED <<os_environ, dotenv, session_state, page, pc, prompt, calls, grounding, arg>>

SpecScrape == InitScrape /\ [][CallScrapeWebsite]_vars

(* The post-processing on its own: every response within the bounds *)

InitStrip ==
    /\ Quiescent
    /\ arg \in SeqsUpTo(Tokens, MaxRaw)

CallStripThink ==
    /\ lastEvent = "start"
    /\ ret' = StripThink(arg)
    /\ lastEvent' = "strip_think"
    /\ UNCHANGED <<os_environ, dotenv, session_state, page, pc, prompt, calls, grounding, arg>>

SpecStrip == InitStrip /\ [][CallStripThink]_vars

-----------------------------------------------------------------------------
(* Properties *)

messages == session_state.messages
document == session_state.scraped_data

\* C1: the chat input is offered exactly when the stored document is non-null,
\* and no step calls the model or appends a Message while the document is null.
C1_ChatIffDocument ==
    /\ [](page.chat_input <=> document # None)
    /\ [][(calls' > calls \/ Len(messages') > Len(messages))
            => (document # None /\ document' # None /\ page.chat_input)]_vars

C1_Witness ==
    /\ lastEvent = "answer"
    /\ page.chat_input
    /\ document # None
    /\ Len(messages) = 2

\* C2: ClearAll, whatever the session held, leaves document = null and history = []
\* with the chat input not offered, and the chat input only comes back with a
\* successful extraction.
C2_ClearAllEmpties ==
    /\ [](lastEvent = "clear_all"
            => (document = None /\ messages = <<>> /\ ~page.chat_input))
    /\ [][(~page.chat_input /\ page'.chat_input) => lastEvent' = "extract_ok"]_vars

C2_Witness ==
    /\ lastEvent = "clear_all"
    /\ arg.scraped_data # None
    /\ Len(arg.messages) >= 2
    /\ messages = <<>>
    /\ document = None

\* C3: an extraction returns a Document with non-empty content and no error, or
\* no Document and an error, never both and never neither; when it returns an
\* error the document, data, template and history are what they were.
C3_ExtractAllOrNothing ==
    /\ [](lastEvent \in {"extract_ok", "extract_error"}
            => /\ (ret[1] # None) # (ret[2] # None)
               /\ ret[1] # None => ret[1].page_content # <<>>
               /\ (lastEvent = "extract_error") <=> (ret[2] # None))
    /\ [][lastEvent' = "extract_error"
            => /\ session_state'.scraped_data = session_state.scraped_data
               /\ session_state'.data = session_state.data
               /\ session_state'.template = session_state.template
               /\ session_state'.messages = session_state.messages
               /\ page'.chat_input = page.chat_input]_vars

C3_Witness ==
    /\ lastEvent = "extract_error"
    /\ ret[1] = None
    /\ document # None
    /\ messages # <<>>

\* C4: while the API key is absent (neither in the process environment nor in
\* .env), every script run ends at the configuration error: no extraction, no
\* call of the model, session state untouched - which is still the initial one.
KeyAbsent == ~os_environ /\ ~dotenv

C4_NoKeyNoAction ==
    /\ [](KeyAbsent => (session_state = InitialSessionState /\ pc = "idle" /\ calls = 0))
    /\ [][(KeyAbsent /\ KeyAbsent' /\ vars' # vars)
            => /\ lastEvent' = "config_error"
               /\ page' = ConfigErrorPage
               /\ session_state' = session_state
               /\ pc' = "idle"
               /\ calls' = 0
               /\ arg' = None]_vars

C4_Witness ==
    /\ KeyAbsent
    /\ lastEvent = "config_error"
    /\ page = ConfigErrorPage

\* C5: a response whose <think> segments are well nested (nested, repeated,
\* multi-line) comes out with no marker and no text of a segment.
RECURSIVE Depths(_, _)
Depths(raw, d) ==
    IF raw = <<>> THEN <<>>
    ELSE LET here == IF Head(raw) = OPEN THEN d + 1
                     ELSE IF Head(raw) = CLOSE THEN d - 1 ELSE d
         IN  <<here>> \o Depths(Tail(raw), here)

\* Markers balance, reasoning text "r" lies inside a segment, visible text "v" outside
WellNested(raw) ==
    LET depth == Depths(raw, 0)
    IN  /\ \A i \in 1..Len(raw) : depth[i] >= 0
        /\ raw # <<>> => depth[Len(raw)] = 0
        /\ \A i \in 1..Len(raw) : raw[i] = "r" => depth[i] > 0
        /\ \A i \in 1..Len(raw) : raw[i] = "v" => depth[i] = 0

HasSegment(raw) == \E i \in 1..Len(raw) : raw[i] = OPEN

C5_ThinkSegmentsRemoved ==
    (lastEvent = "strip_think" /\ WellNested(arg) /\ HasSegment(arg))
        => \A i \in 1..Len(ret) : ret[i] \notin {OPEN, CLOSE, "r"}

\* C6: for a page fetched with success, the web extractor returns the words of
\* the paragraphs, in order, separated by single spaces, as a Document with
\* source = url, or the "No meaningful content" error when there is no word.
RECURSIVE Words(_, _)
Words(text, word) ==
    IF text = <<>> THEN (IF word = <<>> THEN <<>> ELSE <<word>>)
    ELSE IF Head(text) \in Whitespace
         THEN (IF word = <<>> THEN <<>> ELSE <<word>>) \o Words(Tail(text), <<>>)
         ELSE Words(Tail(text), Append(word, Head(text)))

RECURSIVE ParagraphWords(_)
ParagraphWords(soup) ==
    IF soup = <<>> THEN <<>>
    ELSE (IF Head(soup).tag = "p" THEN Words(Head(soup).text, <<>>) ELSE <<>>)
            \o ParagraphWords(Tail(soup))

RECURSIVE Spaced(_)
Spaced(words) ==
    IF words = <<>> THEN <<>>
    ELSE IF Len(words) = 1 THEN words[1]
    ELSE Spaced(SubSeq(words, 1, Len(words) - 1)) \o <<" ">> \o words[Len(words)]

ReferenceExtract(url, soup) ==
    LET text == Spaced(ParagraphWords(soup))
    IN  IF text = <<>>
        THEN <<None, Error("No meaningful content found on the page.")>>
        ELSE <<[page_content |-> text, source |-> url], None>>

FetchedOk(response) == ~response.raises /\ response.status = 200

C6_WebExtractMatchesReference ==
    (lastEvent = "scrape_website" /\ FetchedOk(arg.response))
        => ret = ReferenceExtract(arg.url, arg.response.soup)

C6_Witness ==
    /\ lastEvent = "scrape_website"
    /\ FetchedOk(arg.response)
    /\ Len(arg.response.soup) = 3
    /\ ret[2] = None
    /\ ret[1].page_content = <<"a", " ", "b">>

\* C7: a successful Extract leaves the session Ready with exactly the Document
\* this extraction returned, and the history as it was.
C7_ExtractReplacesDocument ==
    /\ [](lastEvent = "extract_ok"
            => (document = ret[1] /\ session_state.data = ret[1] /\ page.chat_input))
    /\ [][lastEvent' = "extract_ok" => messages' = messages]_vars

C7_Witness ==
    /\ lastEvent = "extract_ok"
    /\ Len(messages) >= 2
    /\ grounding[1] # None
    /\ grounding[1].page_content # document.page_content
    /\ grounding[1].source # document.source

\* C8 as stated: every Ask ends with the assistant Message appended, so once the
\* run is over every user Message is directly followed by an assistant Message.
C8_EveryAskAnswered ==
    pc = "idle"
        => \A i \in 1..Len(messages) :
              messages[i].role = "user"
                  => (i < Len(messages) /\ messages[i + 1].role = "assistant")

\* C8 amended: Ask appends the user Message before the call; a call that returns
\* appends exactly one assistant Message, a call that raises appends none;
\* earlier Messages stay; every assistant Message directly follows its user
\* Message and its prompt was rendered from that question and the document
\* current when that user Message was appended.
C8_AskAppendsInOrder ==
    /\ [][(pc = "idle" /\ pc' = "invoking")
            => /\ messages' = Append(messages, Message("user", prompt'.question))
               /\ prompt'.context = document'.page_content
               /\ document' = document]_vars
    /\ [][(pc = "invoking" /\ lastEvent' = "answer")
            => messages' = Append(messages, Message("assistant", ret'))]_vars
    /\ [][(pc = "invoking" /\ lastEvent' = "inference_error")
            => messages' = messages]_vars
    /\ [](Len(grounding) = Len(messages))
    /\ [](\A i \in 1..Len(messages) :
            messages[i].role = "assistant"
                => /\ i > 1
                   /\ messages[i - 1].role = "user"
                   /\ grounding[i].question = messages[i - 1].content
                   /\ grounding[i - 1] # None
                   /\ grounding[i].context = grounding[i - 1].page_content)

C8_Witness ==
    /\ Len(messages) = 4
    /\ messages[2].role = "assistant"
    /\ messages[4].role = "assistant"
    /\ grounding[1] # grounding[3]
    /\ messages[1].content # messages[3].content

\* C9: a failed inference call is shown on the page and ends the run; the
\* session keeps its document and history, the call is not repeated, and the
\* page still offers the chat input and the extraction buttons.
C9_InferenceErrorSurvivable ==
    /\ [](calls <= 1)
    /\ [][(pc = "invoking" /\ lastEvent' = "inference_error")
            => /\ pc' = "idle"
               /\ prompt' = None
               /\ calls' = calls
               /\ session_state' = session_state
               /\ page'.error = "exception"]_vars
    /\ [](lastEvent = "inference_error"
            => (pc = "idle" /\ document # None /\ page.view = "main" /\ page.chat_input))

C9_Witness ==
    /\ lastEvent = "answer"
    /\ Len(messages) = 3
    /\ messages[1].role = "user"
    /\ messages[2].role = "user"
    /\ messages[3].role = "assistant"
    /\ grounding[1] # grounding[2]

\* C10: whenever the document is non-null, the template is bound, data is that
\* same document and the chain exists, so Ask never dereferences None.
C10_ReadyHasTemplateDataChain ==
    /\ document # None
         => /\ session_state.template # None
            /\ session_state.data = document
            /\ session_state.chain # None
    /\ pc = "invoking" => (prompt # None /\ session_state.chain # None)
    /\ lastEvent # "attribute_error"

C10_Witness ==
    /\ lastEvent = "answer"
    /\ document # None
    /\ session_state.data = document
    /\ Len(messages) = 4

====
